---- MODULE Spec2Model ----
(***************************************************************************)
(* A model of src/main.cpp, the reader of a Mail.Ru Agent history          *)
(* container (mra.dbs): main, get_history and get_messages over a          *)
(* byte-addressed buffer.                                                   *)
(*                                                                         *)
(* The buffer is modelled byte by byte.  `file` holds the bytes that were  *)
(* written explicitly; every other byte below file_size is zero.  All      *)
(* multi-byte reads are little-endian, as on the platforms the program is  *)
(* built for.  Pointer arithmetic is 64 bit, so offsets never wrap.        *)
(*                                                                         *)
(* The program never checks a read against the length of the buffer        *)
(* (except line 113).  A read that leaves the buffer is undefined          *)
(* behaviour: here it either faults (pc = "segv") or yields some value     *)
(* that happens to lie behind the buffer (JunkWords, JunkTails, BOOLEAN).  *)
(***************************************************************************)
EXTENDS Integers, Sequences, FiniteSets, TLC

VARIABLES
  file,                  \* explicit bytes of the buffer: offset -> 0..255
  file_size,             \* file.size()
  pc,                    \* position of the program
  offsets_table_offset,  \* main: offsets_table - mra_base
  last_email,            \* get_history: cursor of the correspondent chain
  emails,                \* get_history: std::vector<Email>
  email_idx,             \* main: number of emails the for loop has taken
  msg_id,                \* get_messages: cursor of the message chain
  msgs,                  \* get_messages: std::vector<Message>
  msgs_count,            \* main: total
  reads,                 \* history: every read done through `file`
  resolved,              \* history: every index applied to offset_table
  corr_visits,           \* history: id -> times get_history's loop took it (2 = more than once)
  msg_visits             \* history: the same for the running get_messages call

vars == <<file, file_size, pc, offsets_table_offset, last_email, emails,
          email_idx, msg_id, msgs, msgs_count, reads, resolved,
          corr_visits, msg_visits>>

-----------------------------------------------------------------------------
(* Program constants *)

OFFSETS_TABLE_LOC_OFFSET == 16
LAST_EMAIL_OFFSET == 44
MRAHISTORY_OFFSET == 400
TYPE_SMS == 17
MAGIC == 56
ID_PAIR_OFFSET == 4
HEAD_PAIR_OFFSET == 36
ANCHOR_ID == 1

\* "mrahistory_" in UTF-16LE
mrahistory ==
  <<109, 0, 114, 0, 97, 0, 104, 0, 105, 0, 115, 0, 116, 0, 111, 0,
    114, 0, 121, 0, 95, 0>>

\* struct IdPair
OFF_id1 == 0
OFF_id2 == 4

\* struct MessageHeader: byte offsets of the fields the program reads
OFF_prev_id == 4
OFF_next_id == 8
OFF_type == 24
OFF_nickname_length == 32
OFF_magic_number == 36
sizeof_MessageHeader == 56

-----------------------------------------------------------------------------
(* Bounds of the model *)

\* std::vector growth fails (std::bad_alloc) past this many elements
MaxEmails == 3
MaxMsgs == 3
\* the longest chain the reference walks below follow
MaxChain == 6

\* what a read behind the buffer can yield when it does not fault: a word
\* (nothing, or one that passes for an ID and for the magic number), a code
\* unit, the rest of a string up to the next zero
JunkWords == {0, MAGIC}
JunkUnits == {0, 65}
JunkTails == {<< >>, <<65>>}

-----------------------------------------------------------------------------
(* The buffer *)

Byte(o) == IF o \in DOMAIN file THEN file[o] ELSE 0

InBuf(o, size) == o >= 0 /\ o + size <= file_size

U16(o) == Byte(o) + 256 * Byte(o + 1)

U32(o) == Byte(o) + 256 * Byte(o + 1) + 65536 * Byte(o + 2) + 16777216 * Byte(o + 3)

\* *(uint32_t*)(file + o)
Rd32(o) == IF InBuf(o, 4) THEN {U32(o)} ELSE JunkWords

\* *(char16_t*)(file + o)
Rd16(o) == IF InBuf(o, 2) THEN {U16(o)} ELSE JunkUnits

\* the offset of the zero code unit that ends the string at o, or of the
\* first code unit that does not lie in the buffer
RECURSIVE StrEnd(_)
StrEnd(o) ==
  IF ~InBuf(o, 2) THEN o
  ELSE IF U16(o) = 0 THEN o
  ELSE StrEnd(o + 2)

Terminated(o) == InBuf(StrEnd(o), 2)

\* the code units of the buffer from o up to StrEnd(o)
RECURSIVE CStr(_)
CStr(o) ==
  IF ~InBuf(o, 2) THEN << >>
  ELSE IF U16(o) = 0 THEN << >>
  ELSE <<U16(o)>> \o CStr(o + 2)

\* what a scan for the terminating zero from o can see
RdStr(o) == IF Terminated(o) THEN {CStr(o)} ELSE {CStr(o) \o t : t \in JunkTails}

\* memmem(file + o, 22, mrahistory, 22) != NULL
SigEq(o) == \A i \in 1..Len(mrahistory) : Byte(o + i - 1) = mrahistory[i]

RdSig(o) == IF InBuf(o, Len(mrahistory)) THEN {SigEq(o)} ELSE BOOLEAN

Oob(rs) == \E r \in rs : ~InBuf(r.at, r.size)

\* a step that reads outside the buffer may fault
Faults(rs) == IF Oob(rs) THEN BOOLEAN ELSE {FALSE}

-----------------------------------------------------------------------------
(* std::wstring_convert<std::codecvt_utf8_utf16<char16_t>>::to_bytes *)

IsHigh(c) == c >= 55296 /\ c <= 56319
IsLow(c) == c >= 56320 /\ c <= 57343

\* to_bytes throws std::range_error on an unpaired surrogate
RECURSIVE ValidUtf16(_)
ValidUtf16(u) ==
  IF u = << >> THEN TRUE
  ELSE IF IsHigh(u[1]) THEN Len(u) >= 2 /\ IsLow(u[2]) /\ ValidUtf16(SubSeq(u, 3, Len(u)))
  ELSE IF IsLow(u[1]) THEN FALSE
  ELSE ValidUtf16(Tail(u))

Utf8(cp) ==
  IF cp < 128 THEN <<cp>>
  ELSE IF cp < 2048 THEN <<192 + (cp \div 64), 128 + (cp % 64)>>
  ELSE IF cp < 65536
    THEN <<224 + (cp \div 4096), 128 + ((cp \div 64) % 64), 128 + (cp % 64)>>
  ELSE <<240 + (cp \div 262144), 128 + ((cp \div 4096) % 64),
         128 + ((cp \div 64) % 64), 128 + (cp % 64)>>

RECURSIVE to_bytes(_)
to_bytes(u) ==
  IF u = << >> THEN << >>
  ELSE IF IsHigh(u[1]) /\ Len(u) >= 2
    THEN Utf8(65536 + (u[1] - 55296) * 1024 + (u[2] - 56320))
           \o to_bytes(SubSeq(u, 3, Len(u)))
  ELSE Utf8(u[1]) \o to_bytes(Tail(u))

-----------------------------------------------------------------------------
(* The buffers the program is run on.  A buffer is laid out from a          *)
(* description: the offset table, the anchor record (ID 1), two            *)
(* correspondent records (IDs 2, 3) and two message records (IDs 4, 5).    *)

Corr == {2, 3}
Mesg == {4, 5}

\* where the records lie in a whole buffer
Place == (1 :> 48) @@ (2 :> 96) @@ (3 :> 544) @@ (4 :> 992) @@ (5 :> 1072)
\* a whole buffer ends 80 bytes after the start of the last record; the
\* offset table follows the header field that locates it
WholeSize == Place[5] + 80
TableAt == OFFSETS_TABLE_LOC_OFFSET + 4

W32(o, v) == [i \in o..(o + 3) |-> (v \div (256 ^ (i - o))) % 256]

WBytes(o, b) == [i \in o..(o + Len(b) - 1) |-> b[i - o + 1]]

WUnits(o, u) ==
  [i \in o..(o + 2 * Len(u) - 1) |->
     IF (i - o) % 2 = 0 THEN u[((i - o) \div 2) + 1] % 256
     ELSE u[((i - o) \div 2) + 1] \div 256]

CorrBytes(d, c) ==
  LET id_pair == Place[c] + ID_PAIR_OFFSET
  IN  W32(id_pair + OFF_id2, d.id2[c])
        @@ W32(id_pair + HEAD_PAIR_OFFSET + OFF_id1, d.head[c])
        @@ (IF d.sig[c] THEN WBytes(id_pair + MRAHISTORY_OFFSET, mrahistory)
            ELSE WBytes(id_pair + MRAHISTORY_OFFSET, <<109, 0, 114, 0, 98>>))
        @@ WUnits(id_pair + MRAHISTORY_OFFSET + Len(mrahistory), d.name[c])

MesgBytes(d, m) ==
  W32(Place[m] + OFF_prev_id, d.prev[m])
    @@ W32(Place[m] + OFF_next_id, d.next[m])
    @@ W32(Place[m] + OFF_type, d.type[m])
    @@ W32(Place[m] + OFF_nickname_length, d.nick[m])
    @@ W32(Place[m] + OFF_magic_number, d.magic[m])
    @@ WUnits(Place[m] + sizeof_MessageHeader, d.payload[m])

AllBytes(d) ==
  W32(OFFSETS_TABLE_LOC_OFFSET, d.table)
    @@ W32(d.table + 4, d.off[1]) @@ W32(d.table + 8, d.off[2])
    @@ W32(d.table + 12, d.off[3]) @@ W32(d.table + 16, d.off[4])
    @@ W32(d.table + 20, d.off[5])
    @@ W32(Place[1] + LAST_EMAIL_OFFSET, d.first)
    @@ CorrBytes(d, 2) @@ CorrBytes(d, 3)
    @@ MesgBytes(d, 4) @@ MesgBytes(d, 5)

\* the non-zero bytes below the buffer's length
Build(d) ==
  LET b == AllBytes(d)
  IN  [o \in {x \in DOMAIN b : x < d.size /\ b[x] # 0} |-> b[o]]

\* one correspondent chain 2 -> 3 -> 0, both with the signature; the
\* messages 5 -> 4 -> 0 belong to correspondent 2 and message 4 to 3
Plain ==
  [first |-> 2,
   id2 |-> (2 :> 3) @@ (3 :> 0),
   sig |-> (2 :> TRUE) @@ (3 :> TRUE),
   head |-> (2 :> 5) @@ (3 :> 4),
   name |-> (2 :> <<97, 1078>>) @@ (3 :> <<98>>),
   prev |-> (4 :> 0) @@ (5 :> 4),
   next |-> (4 :> 5) @@ (5 :> 0),
   type |-> (4 :> 1) @@ (5 :> 1),
   nick |-> (4 :> 2) @@ (5 :> 2),
   magic |-> (4 :> MAGIC) @@ (5 :> MAGIC),
   payload |-> (4 :> <<65, 0, 84, 0>>) @@ (5 :> <<66, 0, 85, 86, 0>>),
   off |-> Place,
   table |-> TableAt,
   size |-> WholeSize]

\* the shapes of the correspondent chain
ChainInputs ==
  {[Plain EXCEPT !.first = f, !.id2 = (2 :> a) @@ (3 :> b),
                 !.sig = (2 :> s) @@ (3 :> t)] :
     f \in {0, 2, 3}, a \in {0, 3}, b \in {0, 2}, s \in BOOLEAN, t \in BOOLEAN}

\* the shapes of the message chains
MessageInputs ==
  {[Plain EXCEPT !.head = (2 :> g) @@ (3 :> h), !.prev = (4 :> p) @@ (5 :> q),
                 !.magic = (4 :> m) @@ (5 :> n)] :
     g \in {0, 4, 5}, h \in {0, 4, 5}, p \in {0, 4, 5}, q \in {0, 4, 5},
     m \in {MAGIC, 0}, n \in {MAGIC, 57}}

\* truncated buffers and offsets that leave the buffer
Cuts == {WholeSize, 1130, 1100, 1072, 975, 94}

BoundsInputs ==
  {[Plain EXCEPT !.size = n] : n \in Cuts}
    \cup {[Plain EXCEPT !.off[r] = n + k, !.size = n, !.sig[2] = s] :
            r \in 1..5, n \in {WholeSize, 1130}, k \in {16, -6}, s \in BOOLEAN}
    \cup {[Plain EXCEPT !.table = t] : t \in {WholeSize - 2, WholeSize + 8}}

\* author and text of message 5: every short run of code units, the type
\* and the declared nickname length; message 4 follows it
Units == {0, 65, 1046}

TextInputs ==
  {[Plain EXCEPT !.payload[5] = <<a, b, c, 66, 67, 0>>, !.type[5] = t, !.nick[5] = k] :
     a \in Units, b \in Units, c \in Units, t \in {TYPE_SMS, 1}, k \in {0, 1, 2, 3, 40}}
    \cup {[Plain EXCEPT !.payload[5] = u, !.nick[5] = k] :
            u \in {<<55357, 56832, 0, 65, 0>>, <<65, 0, 56320, 0>>,
                   <<56320, 0, 65, 0>>, <<65, 66, 67, 68, 69, 70, 71, 72, 73, 74, 75, 76>>},
            k \in {0, 2}}
    \cup {[Plain EXCEPT !.name[2] = u] : u \in {<<56320>>, << >>, <<55357, 56832>>}}

Inputs == ChainInputs \cup MessageInputs \cup BoundsInputs \cup TextInputs

Init ==
  /\ \E d \in Inputs : file = Build(d) /\ file_size = d.size
  /\ pc = "start"
  /\ offsets_table_offset = 0
  /\ last_email = 0
  /\ emails = << >>
  /\ email_idx = 0
  /\ msg_id = 0
  /\ msgs = << >>
  /\ msgs_count = 0
  /\ reads = {}
  /\ resolved = {}
  /\ corr_visits = << >>
  /\ msg_visits = << >>

-----------------------------------------------------------------------------
(* The program *)

input == <<file, file_size>>

\* a read of `size` bytes at file + at, made by `by` in the record that the
\* cursor of a loop resolved to offset `rec` (-1: the read is of the file
\* header, of the offset table or of the anchor record)
Read(by, at, size, rec) == [by |-> by, at |-> at, size |-> size, rec |-> rec]

\* offset_table[id]
TableRead(by, id) == Read(by, offsets_table_offset + 4 * id, 4, -1)

Visit(v, id) == IF id \in DOMAIN v THEN [v EXCEPT ![id] = 2] ELSE v @@ (id :> 1)

\* while (last_email), while (msg_id != 0)
LoopGuard_Always(id) == TRUE
LoopGuard(id) == id # 0

\* assert(current_offset < file_size)
BoundsAssert(current_offset) == current_offset < file_size

\* assert(header->magic_number == 0x38)
MagicAssert_Dropped(magic_number) == TRUE
MagicAssert(magic_number) == magic_number = MAGIC

\* last_email = id_pair->id2
NextEmailField_Id1(id_pair) == id_pair + OFF_id1
NextEmailField(id_pair) == id_pair + OFF_id2

\* .id_pair = (IdPair*) ((uint8_t*) id_pair + 0x24)
HeadPair(id_pair) == id_pair + HEAD_PAIR_OFFSET

\* msg_id = header->prev_id
NextMessageField_NextId(header) == header + OFF_next_id
NextMessageField(header) == header + OFF_prev_id

\* char16_t* author = (char16_t*) ((unsigned char*) header + sizeof(MessageHeader))
AuthorAt(header) == header + sizeof_MessageHeader

\* char16_t* text = author + header->nickname_length
TextAt(author, nickname_length) == author + 2 * nickname_length

\* if (*text == 0 && header->type == TYPE_SMS) text += 3
SmsSkip_AnyType(text, first, type) == IF first = 0 THEN text + 6 ELSE text
SmsSkip(text, first, type) == IF first = 0 /\ type = TYPE_SMS THEN text + 6 ELSE text

\* msgs_count += messages.size()
CountAfter_Overwrite(count, messages) == Len(messages)
CountAfter(count, messages) == count + Len(messages)

\* the process is gone: nothing but pc changes
Dies(how) ==
  /\ pc' = how
  /\ UNCHANGED <<input, offsets_table_offset, last_email, emails, email_idx,
                 msg_id, msgs, msgs_count, reads, resolved, corr_visits, msg_visits>>

\* main, lines 182-191
MainStart ==
  /\ pc = "start"
  /\ LET r == Read("main", OFFSETS_TABLE_LOC_OFFSET, 4, -1)
     IN  \E t \in Rd32(r.at), fault \in Faults({r}) :
           IF fault THEN Dies("segv")
           ELSE /\ offsets_table_offset' = t
                /\ reads' = reads \cup {r}
                /\ pc' = "gh_entry"
                /\ UNCHANGED <<input, last_email, emails, email_idx, msg_id, msgs,
                               msgs_count, resolved, corr_visits, msg_visits>>

\* get_history, lines 101-109
GetHistoryEntry ==
  /\ pc = "gh_entry"
  /\ LET t == TableRead("get_history", ANCHOR_ID)
     IN  \E anchor \in Rd32(t.at) :
           LET r == Read("get_history", anchor + LAST_EMAIL_OFFSET, 4, -1)
           IN  \E v \in Rd32(r.at), fault \in Faults({t, r}) :
                 IF fault THEN Dies("segv")
                 ELSE /\ last_email' = v
                      /\ reads' = reads \cup {t, r}
                      /\ resolved' = resolved \cup {ANCHOR_ID}
                      /\ pc' = "gh_loop"
                      /\ UNCHANGED <<input, offsets_table_offset, emails, email_idx,
                                     msg_id, msgs, msgs_count, corr_visits, msg_visits>>

\* get_history, one turn of the loop, lines 111-135
GetHistoryLoop ==
  /\ pc = "gh_loop"
  /\ LoopGuard(last_email)
  /\ LET t == TableRead("get_history", last_email)
     IN  \E current_offset \in Rd32(t.at) :
           LET id_pair == current_offset + ID_PAIR_OFFSET
               mrahistory_loc == id_pair + MRAHISTORY_OFFSET
               name_utf16 == mrahistory_loc + Len(mrahistory)
               sig == Read("get_history", mrahistory_loc, Len(mrahistory), current_offset)
               nam == Read("get_history", name_utf16, StrEnd(name_utf16) - name_utf16 + 2,
                           current_offset)
               nxt == Read("get_history", NextEmailField(id_pair), 4, current_offset)
           IN  IF ~BoundsAssert(current_offset)
               THEN \E fault \in Faults({t}) :
                      IF fault THEN Dies("segv")
                      ELSE /\ pc' = "exit1"
                           /\ reads' = reads \cup {t}
                           /\ resolved' = resolved \cup {last_email}
                           /\ corr_visits' = Visit(corr_visits, last_email)
                           /\ UNCHANGED <<input, offsets_table_offset, last_email, emails,
                                          email_idx, msg_id, msgs, msgs_count, msg_visits>>
               ELSE \E match \in RdSig(mrahistory_loc), id2 \in Rd32(nxt.at) :
                      IF match
                      THEN \E u \in RdStr(name_utf16), fault \in Faults({t, sig, nam, nxt}) :
                             IF fault THEN Dies("segv")
                             ELSE /\ resolved' = resolved \cup {last_email}
                                  /\ corr_visits' = Visit(corr_visits, last_email)
                                  /\ UNCHANGED <<input, offsets_table_offset, email_idx,
                                                 msg_id, msgs, msgs_count, msg_visits>>
                                  /\ IF ~ValidUtf16(u) \/ Len(emails) >= MaxEmails
                                     THEN \* std::range_error or std::bad_alloc, not caught
                                          /\ pc' = "abort"
                                          /\ reads' = reads \cup {t, sig, nam}
                                          /\ UNCHANGED <<last_email, emails>>
                                     ELSE /\ emails' = Append(emails,
                                                [name |-> to_bytes(u),
                                                 id_pair |-> HeadPair(id_pair)])
                                          /\ last_email' = id2
                                          /\ reads' = reads \cup {t, sig, nam, nxt}
                                          /\ pc' = "gh_loop"
                      ELSE \E fault \in Faults({t, sig, nxt}) :
                             IF fault THEN Dies("segv")
                             ELSE /\ last_email' = id2
                                  /\ reads' = reads \cup {t, sig, nxt}
                                  /\ resolved' = resolved \cup {last_email}
                                  /\ corr_visits' = Visit(corr_visits, last_email)
                                  /\ pc' = "gh_loop"
                                  /\ UNCHANGED <<input, offsets_table_offset, emails,
                                                 email_idx, msg_id, msgs, msgs_count,
                                                 msg_visits>>

\* get_history returns, lines 111, 137; main, lines 193-196
GetHistoryReturn ==
  /\ pc = "gh_loop"
  /\ ~LoopGuard(last_email)
  /\ pc' = "main_for"
  /\ UNCHANGED <<input, offsets_table_offset, last_email, emails, email_idx, msg_id,
                 msgs, msgs_count, reads, resolved, corr_visits, msg_visits>>

\* main takes the next email and calls get_messages, lines 197-199, 140-145
MainForNext ==
  /\ pc = "main_for"
  /\ email_idx < Len(emails)
  /\ LET email == emails[email_idx + 1]
         r == Read("get_messages", email.id_pair + OFF_id1, 4,
                   email.id_pair - HEAD_PAIR_OFFSET - ID_PAIR_OFFSET)
     IN  \E v \in Rd32(r.at), fault \in Faults({r}) :
           IF fault THEN Dies("segv")
           ELSE /\ email_idx' = email_idx + 1
                /\ msg_id' = v
                /\ msgs' = << >>
                /\ msg_visits' = << >>
                /\ reads' = reads \cup {r}
                /\ pc' = "gm_loop"
                /\ UNCHANGED <<input, offsets_table_offset, last_email, emails,
                               msgs_count, resolved, corr_visits>>

\* get_messages, one turn of the loop, lines 146-168
GetMessagesLoop ==
  /\ pc = "gm_loop"
  /\ LoopGuard(msg_id)
  /\ LET t == TableRead("get_messages", msg_id)
     IN  \E header \in Rd32(t.at) :
           LET mag == Read("get_messages", header + OFF_magic_number, 4, header)
               nck == Read("get_messages", header + OFF_nickname_length, 4, header)
               typ == Read("get_messages", header + OFF_type, 4, header)
               prv == Read("get_messages", NextMessageField(header), 4, header)
               author == AuthorAt(header)
           IN  \E magic_number \in Rd32(mag.at) :
                 IF ~MagicAssert(magic_number)
                 THEN \E fault \in Faults({t, mag}) :
                        IF fault THEN Dies("segv")
                        ELSE /\ pc' = "exit1"
                             /\ reads' = reads \cup {t, mag}
                             /\ resolved' = resolved \cup {msg_id}
                             /\ msg_visits' = Visit(msg_visits, msg_id)
                             /\ UNCHANGED <<input, offsets_table_offset, last_email, emails,
                                            email_idx, msg_id, msgs, msgs_count, corr_visits>>
                 ELSE \E nickname_length \in Rd32(nck.at) :
                        LET text0 == TextAt(author, nickname_length)
                            fst == Read("get_messages", text0, 2, header)
                        IN  \E first \in Rd16(text0) :
                              \E type \in (IF first = 0 THEN Rd32(typ.at) ELSE {0}) :
                                LET text == SmsSkip(text0, first, type)
                                    aut == Read("get_messages", author,
                                                StrEnd(author) - author + 2, header)
                                    txt == Read("get_messages", text,
                                                StrEnd(text) - text + 2, header)
                                    head == {t, mag, nck, fst}
                                              \cup (IF first = 0 THEN {typ} ELSE {})
                                IN  \E a \in RdStr(author), x \in RdStr(text),
                                       prev_id \in Rd32(prv.at),
                                       fault \in Faults(head \cup {aut, txt, prv}) :
                                      IF fault THEN Dies("segv")
                                      ELSE /\ resolved' = resolved \cup {msg_id}
                                           /\ msg_visits' = Visit(msg_visits, msg_id)
                                           /\ UNCHANGED <<input, offsets_table_offset,
                                                          last_email, emails, email_idx,
                                                          msgs_count, corr_visits>>
                                           /\ IF ~ValidUtf16(a)
                                              THEN \* std::range_error, not caught
                                                   /\ pc' = "abort"
                                                   /\ reads' = reads \cup head \cup {aut}
                                                   /\ UNCHANGED <<msg_id, msgs>>
                                              ELSE IF ~ValidUtf16(x) \/ Len(msgs) >= MaxMsgs
                                              THEN \* std::range_error or std::bad_alloc
                                                   /\ pc' = "abort"
                                                   /\ reads' = reads \cup head \cup {aut, txt}
                                                   /\ UNCHANGED <<msg_id, msgs>>
                                              ELSE /\ msgs' = Append(msgs,
                                                         [header |-> header,
                                                          author |-> to_bytes(a),
                                                          text |-> to_bytes(x)])
                                                   /\ msg_id' = prev_id
                                                   /\ reads' = reads \cup head
                                                                 \cup {aut, txt, prv}
                                                   /\ pc' = "gm_loop"

\* get_messages returns, lines 146, 170; main, lines 199-206
GetMessagesReturn ==
  /\ pc = "gm_loop"
  /\ ~LoopGuard(msg_id)
  /\ msgs_count' = CountAfter(msgs_count, msgs)
  /\ pc' = "main_for"
  /\ UNCHANGED <<input, offsets_table_offset, last_email, emails, email_idx, msg_id,
                 msgs, reads, resolved, corr_visits, msg_visits>>

\* main leaves the for loop, lines 197, 208-210
MainDone ==
  /\ pc = "main_for"
  /\ email_idx = Len(emails)
  /\ pc' = "done"
  /\ UNCHANGED <<input, offsets_table_offset, last_email, emails, email_idx, msg_id,
                 msgs, msgs_count, reads, resolved, corr_visits, msg_visits>>

Next ==
  \/ MainStart
  \/ GetHistoryEntry
  \/ GetHistoryLoop
  \/ GetHistoryReturn
  \/ MainForNext
  \/ GetMessagesLoop
  \/ GetMessagesReturn
  \/ MainDone

Spec == Init /\ [][Next]_vars

\* the program is sequential and always takes its next step
FairSpec == Spec /\ WF_vars(Next)

Halted == pc \in {"done", "exit1", "abort", "segv"}

-----------------------------------------------------------------------------
(* Reference walks over the buffer, used to state the properties.  They    *)
(* read the buffer only where it can be read, and say so (...Ok).          *)

RefTable == U32(OFFSETS_TABLE_LOC_OFFSET)
RefResolve(id) == U32(RefTable + 4 * id)
RefResolveOk(id) == InBuf(OFFSETS_TABLE_LOC_OFFSET, 4) /\ InBuf(RefTable + 4 * id, 4)

RefFirst == U32(RefResolve(ANCHOR_ID) + LAST_EMAIL_OFFSET)
RefFirstOk ==
  RefResolveOk(ANCHOR_ID) /\ InBuf(RefResolve(ANCHOR_ID) + LAST_EMAIL_OFFSET, 4)

RefId2(id) == U32(RefResolve(id) + ID_PAIR_OFFSET + OFF_id2)
RefSigAt(id) == RefResolve(id) + ID_PAIR_OFFSET + MRAHISTORY_OFFSET
RefNameAt(id) == RefSigAt(id) + Len(mrahistory)
RefHeadAt(id) == RefResolve(id) + ID_PAIR_OFFSET + HEAD_PAIR_OFFSET

\* the correspondent chain from id ends in 0 within n records, each at an
\* offset in the buffer, with its id2, its signature and (on a match) its
\* name readable
RECURSIVE RefCorrOk(_, _)
RefCorrOk(id, n) ==
  \/ id = 0
  \/ /\ n > 0
     /\ RefResolveOk(id)
     /\ RefResolve(id) < file_size
     /\ InBuf(RefResolve(id) + ID_PAIR_OFFSET + OFF_id2, 4)
     /\ InBuf(RefSigAt(id), Len(mrahistory))
     /\ SigEq(RefSigAt(id)) => Terminated(RefNameAt(id))
     /\ RefCorrOk(RefId2(id), n - 1)

RECURSIVE RefCorrIds(_, _)
RefCorrIds(id, n) ==
  IF id = 0 \/ n = 0 THEN << >> ELSE <<id>> \o RefCorrIds(RefId2(id), n - 1)

RECURSIVE RefEmails(_, _)
RefEmails(id, n) ==
  IF id = 0 \/ n = 0 THEN << >>
  ELSE (IF SigEq(RefSigAt(id))
        THEN <<[name |-> to_bytes(CStr(RefNameAt(id))), id_pair |-> RefHeadAt(id)]>>
        ELSE << >>) \o RefEmails(RefId2(id), n - 1)

RefPrev(id) == U32(RefResolve(id) + OFF_prev_id)

\* the message chain from id ends in 0 within n records, with every table
\* entry and prev_id readable
RECURSIVE RefMsgOk(_, _)
RefMsgOk(id, n) ==
  \/ id = 0
  \/ /\ n > 0
     /\ RefResolveOk(id)
     /\ InBuf(RefResolve(id) + OFF_prev_id, 4)
     /\ RefMsgOk(RefPrev(id), n - 1)

RECURSIVE RefMsgIds(_, _)
RefMsgIds(id, n) ==
  IF id = 0 \/ n = 0 THEN << >> ELSE <<id>> \o RefMsgIds(RefPrev(id), n - 1)

Ones(ids) == [i \in {ids[k] : k \in DOMAIN ids} |-> 1]
SameMap(f, g) == DOMAIN f = DOMAIN g /\ \A x \in DOMAIN f : f[x] = g[x]

HistoryReturned == pc \in {"main_for", "gm_loop", "done"}
MessagesReturned == pc = "main_for" /\ email_idx >= 1

-----------------------------------------------------------------------------
(* Properties *)

Revisited == (\E i \in DOMAIN corr_visits : corr_visits[i] = 2)
               \/ (\E i \in DOMAIN msg_visits : msg_visits[i] = 2)

\* C1: once a traversal has reached an ID a second time, the run ends
\* (with an error) instead of looping for ever.
C1_CycleEnds == Revisited ~> Halted

\* the cursor of the message loop stands on a record whose magic_number can
\* be read and is not 0x38
BadMagicAhead ==
  /\ pc = "gm_loop" /\ msg_id # 0
  /\ InBuf(offsets_table_offset + 4 * msg_id, 4)
  /\ InBuf(U32(offsets_table_offset + 4 * msg_id) + OFF_magic_number, 4)
  /\ U32(U32(offsets_table_offset + 4 * msg_id) + OFF_magic_number) # 56

\* C2: a message record whose magic_number is not 0x38 ends the scan with
\* the assertion failure; it is not emitted, nothing behind its header is
\* read, and no record after it is emitted: every emitted message whose
\* magic_number lies in the buffer has 0x38 there.
C2_BadMagicNeverEmitted ==
  [][/\ BadMagicAhead
          => /\ pc' = "exit1" /\ msgs' = msgs
             /\ \A r \in reads' \ reads :
                  r.rec # -1 => r.at + r.size <= r.rec + 56
     /\ \A i \in DOMAIN msgs' :
          InBuf(msgs'[i].header + 36, 4) => U32(msgs'[i].header + 36) = 56]_vars

C2_Witness ==
  /\ pc = "exit1" /\ email_idx >= 1 /\ Len(msgs) = 1
  /\ RefResolveOk(msg_id) /\ InBuf(RefResolve(msg_id) + 36, 4)
  /\ U32(RefResolve(msg_id) + 36) # 56

\* C3: a failed message scan (here: one whose reads all lay in the buffer)
\* never ends the run while correspondents that get_history returned are
\* still to be scanned.
C3_RunContinues ==
  (pc = "exit1" /\ email_idx >= 1 /\ ~Oob(reads)) => email_idx = Len(emails)

\* C4: no scan reads in a record that its cursor resolved to an offset at
\* or beyond the length of the buffer.
C4_NoReadAtOutOfRangeOffset ==
  \A r \in reads : (r.by # "main" /\ r.rec # -1) => r.rec < file_size

\* C5: when get_history has returned, on a chain that can be read, it has
\* taken every record of the id2 chain once and the emails are the records
\* with the signature, in chain order, each with its name and the place of
\* its message-head IdPair.
C5_EmailsAreMatchingChainRecords ==
  (HistoryReturned /\ RefFirstOk /\ RefCorrOk(RefFirst, MaxChain))
    => /\ emails = RefEmails(RefFirst, MaxChain)
       /\ SameMap(corr_visits, Ones(RefCorrIds(RefFirst, MaxChain)))

C5_Witness ==
  /\ HistoryReturned /\ RefFirstOk /\ RefCorrOk(RefFirst, MaxChain)
  /\ Len(RefCorrIds(RefFirst, MaxChain)) = 2
  /\ ~SigEq(RefSigAt(RefFirst))
  /\ Len(emails) = 1

\* C6: a cursor of 0 ends its loop without another look at the offset
\* table, and index 0 is never applied to the offset table.
C6_ZeroEndsLoops ==
  [][/\ (pc = "gh_loop" /\ last_email = 0) => (pc' = "main_for" /\ resolved' = resolved)
     /\ (pc = "gm_loop" /\ msg_id = 0) => (pc' = "main_for" /\ resolved' = resolved)
     /\ 0 \notin resolved']_vars

C6_Witness ==
  /\ pc = "main_for" /\ email_idx = 2 /\ msg_id = 0 /\ last_email = 0
  /\ Cardinality(resolved) = 5

RefHead(i) == U32(emails[i].id_pair + OFF_id1)

\* C7: when get_messages has returned for a correspondent whose head id1
\* is h, on a chain that can be read, the messages are the records reached
\* from h over prev_id, one each and in that order.
C7_MessagesFollowPrevId ==
  (MessagesReturned /\ InBuf(emails[email_idx].id_pair + OFF_id1, 4)
     /\ RefMsgOk(RefHead(email_idx), MaxChain))
    => LET ids == RefMsgIds(RefHead(email_idx), MaxChain)
       IN  /\ Len(msgs) = Len(ids)
           /\ \A i \in DOMAIN ids : msgs[i].header = RefResolve(ids[i])

C7_Witness ==
  /\ MessagesReturned /\ InBuf(emails[email_idx].id_pair + OFF_id1, 4)
  /\ RefMsgOk(RefHead(email_idx), MaxChain)
  /\ Len(msgs) = 2
  /\ U32(msgs[1].header + OFF_next_id) # U32(msgs[1].header + OFF_prev_id)

\* C8: every read of the scans lies inside the buffer.
C8_ReadsInsideBuffer == \A r \in reads : r.by # "main" => InBuf(r.at, r.size)

\* where the text of the message at header h starts when its strings start
\* hs bytes after h
RefText0(h, hs) == h + hs + 2 * U32(h + 32)
RefText(h, hs) ==
  IF U16(RefText0(h, hs)) = 0 /\ U32(h + 24) = 17 THEN RefText0(h, hs) + 6
  ELSE RefText0(h, hs)

\* everything the decoding of the message at h reads lies in the buffer
RefDecodable(h, hs) ==
  /\ InBuf(h + 32, 4) /\ InBuf(h + 24, 4)
  /\ InBuf(RefText0(h, hs), 2)
  /\ Terminated(h + hs) /\ Terminated(RefText(h, hs))

RefDecoded(hs) ==
  \A i \in DOMAIN msgs :
    RefDecodable(msgs[i].header, hs)
      => /\ msgs[i].author = to_bytes(CStr(msgs[i].header + hs))
         /\ msgs[i].text = to_bytes(CStr(RefText(msgs[i].header, hs)))

\* C9 as stated: the author starts 60 bytes after the header's start.
C9_AuthorAt60 == RefDecoded(60)

\* C9, amended: the author is decoded from header + 56 (the size of
\* MessageHeader) up to its first zero code unit; the text from there plus
\* nickname_length * 2 bytes, and 6 bytes further exactly when the code
\* unit there is 0 and the type is 0x11.
C9_AuthorAt56 == RefDecoded(56)

C9_Witness ==
  \E i \in DOMAIN msgs :
    /\ RefDecodable(msgs[i].header, 56)
    /\ U16(RefText0(msgs[i].header, 56)) = 0 /\ U32(msgs[i].header + 24) = 17
    /\ U32(msgs[i].header + 32) = 1
    /\ msgs[i].text # << >> /\ msgs[i].author # << >>

RECURSIVE RefCount(_)
RefCount(es) ==
  IF es = << >> THEN 0
  ELSE Len(RefMsgIds(U32(Head(es).id_pair + OFF_id1), MaxChain)) + RefCount(Tail(es))

\* the message chain from id is acyclic, ends in 0, every offset is in the
\* buffer and every magic_number is 0x38
RECURSIVE RefMsgSound(_, _)
RefMsgSound(id, n) ==
  \/ id = 0
  \/ /\ n > 0
     /\ RefResolveOk(id)
     /\ RefResolve(id) < file_size
     /\ InBuf(RefResolve(id) + OFF_prev_id, 4)
     /\ InBuf(RefResolve(id) + 36, 4)
     /\ U32(RefResolve(id) + 36) = 56
     /\ RefMsgSound(RefPrev(id), n - 1)

\* ... and every string of its records ends inside the buffer and is
\* well-formed UTF-16
RECURSIVE RefMsgDecodes(_, _)
RefMsgDecodes(id, n) ==
  \/ id = 0 \/ n = 0
  \/ /\ RefDecodable(RefResolve(id), 56)
     /\ ValidUtf16(CStr(RefResolve(id) + 56))
     /\ ValidUtf16(CStr(RefText(RefResolve(id), 56)))
     /\ RefMsgDecodes(RefPrev(id), n - 1)

RefSound ==
  /\ RefFirstOk /\ RefCorrOk(RefFirst, MaxChain)
  /\ LET es == RefEmails(RefFirst, MaxChain)
     IN  \A i \in DOMAIN es :
           /\ InBuf(es[i].id_pair + OFF_id1, 4)
           /\ RefMsgSound(U32(es[i].id_pair + OFF_id1), MaxChain)

RefDecodes ==
  /\ \A k \in DOMAIN RefCorrIds(RefFirst, MaxChain) :
       LET id == RefCorrIds(RefFirst, MaxChain)[k]
       IN  SigEq(RefSigAt(id)) => ValidUtf16(CStr(RefNameAt(id)))
  /\ LET es == RefEmails(RefFirst, MaxChain)
     IN  \A i \in DOMAIN es : RefMsgDecodes(U32(es[i].id_pair + OFF_id1), MaxChain)

RefResult ==
  /\ pc = "done"
  /\ msgs_count = RefCount(RefEmails(RefFirst, MaxChain))
  /\ SameMap(corr_visits, Ones(RefCorrIds(RefFirst, MaxChain)))

RefScanResult ==
  MessagesReturned
    => SameMap(msg_visits, Ones(RefMsgIds(RefHead(email_idx), MaxChain)))

====
